---- MODULE Spec2Model ----
(***************************************************************************)
(* A model of md_diff (src/src/mddiff.py): Application.run and             *)
(* Application.diff_replace.                                               *)
(*                                                                         *)
(* A Python str is a sequence of one-character strings; a list of lines is *)
(* a sequence of such sequences.  A str handed to code that iterates over  *)
(* it is the sequence of its one-character items (StrItems).               *)
(***************************************************************************)
EXTENDS Integers, Sequences, FiniteSets, TLC

VARIABLES
    pc,          \* position in run / diff_replace / the per-line loop body
    caller,      \* "run" when diff_replace was entered from run, else "none"
    args,        \* the parsed command line (run)
    effects,     \* external effects so far: "read_file", "git", "open_outfile"
    source,      \* the text lines of the diff file / of git's output
    input,       \* the argument diff_replace was called with (history)
    diff,        \* diff_replace's working list `diff`
    cur_line,    \* diff_replace's cur_line (0-based, as in the code)
    outlines,    \* diff_replace's outlines
    error,       \* the exception raised, "none" if none
    rawline,     \* the line entering the body of the loop of lines 160-170
    line,        \* that loop's variable `line`
    substituted  \* `line` as it was after the substitutions (history)

vars == <<pc, caller, args, effects, source, input, diff, cur_line, outlines,
          error, rawline, line, substituted>>

(***************************************************************************)
(* Bounds.                                                                 *)
(***************************************************************************)
MaxLines == 4
MaxStr == 4

(***************************************************************************)
(* String literals of the source.                                          *)
(***************************************************************************)
DiffGit == <<"d","i","f","f"," ","-","-","g","i","t">>
HeaderPrefix == <<"d","i","f","f"," ","-","-","g","i","t"," ","a","/">>
HunkPrefix == <<"@","@"," ">>
MarkerOpen == <<"<","d","i","v"," ","c","l","a","s","s","=","\"","f","i","l","e","\"",">","F","i","l","e",":"," ">>
MarkerClose == <<"<","/","d","i","v",">","\n">>
RemoveOpen == <<"<","s","p","a","n"," ","s","t","y","l","e","=","'","b","a","c","k","g","r","o","u","n","d","-","c","o","l","o","r",":"," ","#","d","8","8","'",">">>
AddOpen == <<"<","s","p","a","n"," ","s","t","y","l","e","=","'","b","a","c","k","g","r","o","u","n","d","-","c","o","l","o","r",":"," ","#","8","d","8","'",">">>
SpanClose == <<"<","/","s","p","a","n",">">>
SpanCloseBr == <<"<","/","s","p","a","n",">","<","b","r",">">>
EmptyStr == <<>>

\* The characters str.strip() removes and the regex class \S excludes.
Whitespace == {" ", "\t", "\n", "\r", "\f"}

(***************************************************************************)
(* str and list primitives.                                                *)
(***************************************************************************)
\* s.startswith(p)
StartsWith(s, p) == Len(s) >= Len(p) /\ SubSeq(s, 1, Len(p)) = p

\* s[i:] with a 0-based i
SliceFrom(s, i) == SubSeq(s, i + 1, Len(s))

\* s[:i] with a 0-based i
SliceTo(s, i) == SubSeq(s, 1, i)

\* list.insert(i, x): x goes before the item at 0-based index i
ListInsert(l, i, x) ==
    LET k == IF i > Len(l) THEN Len(l) ELSE i
    IN SliceTo(l, k) \o <<x>> \o SliceFrom(l, k)

\* s.replace(old, new): the non-overlapping occurrences, left to right
RECURSIVE ReplaceFrom(_, _, _, _)
ReplaceFrom(s, i, old, new) ==
    IF i > Len(s) THEN <<>>
    ELSE IF i + Len(old) - 1 <= Len(s) /\ SubSeq(s, i, i + Len(old) - 1) = old
         THEN new \o ReplaceFrom(s, i + Len(old), old, new)
         ELSE <<s[i]>> \o ReplaceFrom(s, i + 1, old, new)

StrReplace(s, old, new) == ReplaceFrom(s, 1, old, new)

\* s.strip(): whitespace removed at both ends
RECURSIVE LStrip(_)
LStrip(s) ==
    IF s # <<>> /\ s[1] \in Whitespace THEN LStrip(Tail(s)) ELSE s

RECURSIVE RStrip(_)
RStrip(s) ==
    IF s # <<>> /\ s[Len(s)] \in Whitespace
    THEN RStrip(SubSeq(s, 1, Len(s) - 1)) ELSE s

StrStrip(s) == LStrip(RStrip(s))

\* iterating a str yields its one-character strings
StrItems(s) == [i \in 1..Len(s) |-> <<s[i]>>]

(***************************************************************************)
(* diff_replace, lines 116-172.                                            *)
(***************************************************************************)
\* line 120: some line starts with "diff --git"
HasDiffGit(d) == \E i \in 1..Len(d) : StartsWith(d[i], DiffGit)

\* lines 119-121: the 0-based idx at which the for loop breaks
FirstDiffGit(d) ==
    (CHOOSE i \in 1..Len(d) :
        /\ StartsWith(d[i], DiffGit)
        /\ \A j \in 1..(i - 1) : ~StartsWith(d[j], DiffGit)) - 1

\* the slice of line 124 left out
DropLeadingForgotten(d, idx) == d

\* line 124: diff = diff[idx:]
DropLeading(d, idx) == SliceFrom(d, idx)

\* lines 129, 132: regex.match of ^diff --git a/(\S+)
RegexMatch(s) ==
    /\ StartsWith(s, HeaderPrefix)
    /\ Len(s) > Len(HeaderPrefix)
    /\ s[Len(HeaderPrefix) + 1] \notin Whitespace

\* m.group(1): the greedy run of non-whitespace after the prefix
RECURSIVE NonSpaceRun(_, _)
NonSpaceRun(s, i) ==
    IF i > Len(s) \/ s[i] \in Whitespace THEN <<>>
    ELSE <<s[i]>> \o NonSpaceRun(s, i + 1)

Group1(s) == NonSpaceRun(s, Len(HeaderPrefix) + 1)

\* an inserted line that the header pattern matches again
MarkerLikeHeader(path) == HeaderPrefix \o path

\* line 147: the inserted div
Marker(path) == MarkerOpen \o path \o MarkerClose

\* the bound of line 138 tested with > instead of >=
RECURSIVE FindEndLateBound(_, _)
FindEndLateBound(d, end_line) ==
    IF end_line >= Len(d)
    THEN [raised |-> "IndexError", end |-> end_line]
    ELSE IF StartsWith(d[end_line + 1], HunkPrefix)
    THEN [raised |-> "none", end |-> end_line]
    ELSE IF end_line + 1 > Len(d)
    THEN [raised |-> "No end for last diff file", end |-> end_line + 1]
    ELSE FindEndLateBound(d, end_line + 1)

\* lines 135-139: the scan for the hunk header, from a 0-based end_line
RECURSIVE FindEnd(_, _)
FindEnd(d, end_line) ==
    IF end_line >= Len(d)
    THEN [raised |-> "IndexError", end |-> end_line]
    ELSE IF StartsWith(d[end_line + 1], HunkPrefix)
    THEN [raised |-> "none", end |-> end_line]
    ELSE IF end_line + 1 >= Len(d)
    THEN [raised |-> "No end for last diff file", end |-> end_line + 1]
    ELSE FindEnd(d, end_line + 1)

\* lines 143-147: the span cur..end removed, the marker inserted at cur
Splice(d, cur, end, path) ==
    LET cut == IF cur = 0
               THEN SliceFrom(d, end + 1)
               ELSE SliceTo(d, cur) \o SliceFrom(d, end + 1)
    IN ListInsert(cut, cur, Marker(path))

\* the table with the colour of "{+" mistaken for that of "[-"
replacementsOneColour ==
    << <<(<<"[","-">>), RemoveOpen>>,
       <<(<<"-","]">>), SpanClose>>,
       <<(<<"{","+">>), RemoveOpen>>,
       <<(<<"+","}">>), SpanClose>> >>

\* lines 152-157: the replacements, in the dict's (insertion) order
replacements ==
    << <<(<<"[","-">>), RemoveOpen>>,
       <<(<<"-","]">>), SpanClose>>,
       <<(<<"{","+">>), AddOpen>>,
       <<(<<"+","}">>), SpanClose>> >>

\* line 162, for one item of the dict
ReplaceItem(l, item) == StrReplace(l, item[1], item[2])

\* lines 161-162: the loop over the dict's four items, in their order
Substitute(l) ==
    ReplaceItem(ReplaceItem(ReplaceItem(ReplaceItem(l,
        replacements[1]), replacements[2]), replacements[3]), replacements[4])

\* the wrap of line 166 around line instead of line[1:]
WrapRemovedKeepsSign(l) ==
    IF l # <<>> /\ l[1] = "-"
    THEN RemoveOpen \o l \o SpanCloseBr
    ELSE l

\* lines 164-166
WrapRemoved(l) ==
    IF l # <<>> /\ l[1] = "-"
    THEN RemoveOpen \o Tail(l) \o SpanCloseBr
    ELSE l

\* lines 164, 168-169
WrapAdded(l) ==
    IF l # <<>> /\ l[1] = "+"
    THEN AddOpen \o Tail(l) \o SpanCloseBr
    ELSE l

\* line 170 with rstrip() in the place of strip()
StripLineRight(l) == RStrip(l)

\* line 170
StripLine(l) == StrStrip(l)

\* the body of the loop of lines 160-170, for one line
HighlightLine(l) == StripLine(WrapAdded(WrapRemoved(Substitute(l))))

(***************************************************************************)
(* Inputs.                                                                 *)
(***************************************************************************)
HeaderX == <<"d","i","f","f"," ","-","-","g","i","t"," ","a","/","x">>
HeaderY == <<"d","i","f","f"," ","-","-","g","i","t"," ","a","/","y"," ","b","/","y">>
HeaderNoPrefix == <<"d","i","f","f"," ","-","-","g","i","t"," ","x"," ","x">>
HunkLine == <<"@","@"," ","-","1"," ","+","1"," ","@","@">>
RemovedLine == <<"-","a">>
AddedLine == <<"+","b">>
ContextLine == <<" ","c">>

LineSet == {HeaderX, HeaderY, HeaderNoPrefix, HunkLine, RemovedLine,
            ContextLine, EmptyStr}

Docs == UNION {[1..n -> LineSet] : n \in 0..MaxLines}

Alphabet == {"[", "-", "]", "{", "+", "}", " ", "a"}

Strings == UNION {[1..n -> Alphabet] : n \in 0..MaxStr}

\* the text lines of the files --diff may name
DiffFiles ==
    { <<>>,
      <<ContextLine>>,
      <<HeaderX, HunkLine, RemovedLine, AddedLine>> }

\* the text lines git may print
GitOutputs ==
    { <<>>,
      <<ContextLine, RemovedLine>>,
      <<HeaderX>>,
      <<HeaderX, HunkLine, RemovedLine, AddedLine>>,
      <<HeaderX, HunkLine, ContextLine, HeaderY, HunkLine, AddedLine>> }

\* an option is absent (None), given as the empty string, or given a value
ArgValues == {"none", "empty", "value"}

ArgRecords ==
    [diff : ArgValues, stdin : ArgValues, repo : ArgValues, sha : ArgValues,
     branch : ArgValues, outfile : ArgValues, word_diff : BOOLEAN]

NoArgs == [diff |-> "none", stdin |-> "none", repo |-> "none", sha |-> "none",
           branch |-> "none", outfile |-> "none", word_diff |-> FALSE]

(***************************************************************************)
(* Actions of diff_replace.                                                *)
(***************************************************************************)
runVars == <<caller, args, effects, source>>
lineVars == <<rawline, line, substituted>>

\* line 116: diff_replace is called with a list of lines
Call ==
    /\ pc = "call"
    /\ \E d \in Docs :
          /\ input' = d
          /\ diff' = d
    /\ pc' = "locate"
    /\ UNCHANGED <<cur_line, outlines, error, runVars, lineVars>>

\* lines 119-124
LocateStart ==
    /\ pc = "locate"
    /\ IF HasDiffGit(diff)
       THEN /\ diff' = DropLeading(diff, FirstDiffGit(diff))
            /\ pc' = "scan"
            /\ error' = error
       ELSE /\ error' = "Invalid diff"
            /\ pc' = "raised"
            /\ diff' = diff
    /\ cur_line' = 0
    /\ UNCHANGED <<input, outlines, runVars, lineVars>>

\* lines 131-132, 148-149: no match, cur_line advances
ScanSkip ==
    /\ pc = "scan"
    /\ cur_line < Len(diff)
    /\ ~RegexMatch(diff[cur_line + 1])
    /\ cur_line' = cur_line + 1
    /\ UNCHANGED <<pc, input, diff, outlines, error, runVars, lineVars>>

\* lines 131-147: a match whose hunk header is found
ScanSplice ==
    /\ pc = "scan"
    /\ cur_line < Len(diff)
    /\ RegexMatch(diff[cur_line + 1])
    /\ LET found == FindEnd(diff, cur_line)
       IN /\ found.raised = "none"
          /\ diff' = Splice(diff, cur_line, found.end, Group1(diff[cur_line + 1]))
    /\ UNCHANGED <<pc, input, cur_line, outlines, error, runVars, lineVars>>

\* lines 131-139: a match whose scan raises
ScanRaise ==
    /\ pc = "scan"
    /\ cur_line < Len(diff)
    /\ RegexMatch(diff[cur_line + 1])
    /\ LET found == FindEnd(diff, cur_line)
       IN /\ found.raised # "none"
          /\ error' = found.raised
    /\ pc' = "raised"
    /\ UNCHANGED <<input, diff, cur_line, outlines, runVars, lineVars>>

\* line 131: the loop's test fails
ScanExit ==
    /\ pc = "scan"
    /\ cur_line >= Len(diff)
    /\ pc' = "highlight"
    /\ UNCHANGED <<input, diff, cur_line, outlines, error, runVars, lineVars>>

\* lines 160-172
Highlight ==
    /\ pc = "highlight"
    /\ outlines' = [i \in 1..Len(diff) |-> HighlightLine(diff[i])]
    /\ pc' = "returned"
    /\ UNCHANGED <<input, diff, cur_line, error, runVars, lineVars>>

NextReplace ==
    \/ Call
    \/ LocateStart
    \/ ScanSkip
    \/ ScanSplice
    \/ ScanRaise
    \/ ScanExit
    \/ Highlight

Init ==
    /\ pc = "call"
    /\ caller = "none"
    /\ args = NoArgs
    /\ effects = {}
    /\ source = <<>>
    /\ input = <<>>
    /\ diff = <<>>
    /\ cur_line = 0
    /\ outlines = <<>>
    /\ error = "none"
    /\ rawline = <<>>
    /\ line = <<>>
    /\ substituted = <<>>

Next == NextReplace

Spec == Init /\ [][Next]_vars

\* the steps up to the exit of the loop of lines 131-149
LoopSteps == Call \/ LocateStart \/ ScanSkip \/ ScanSplice \/ ScanRaise \/ ScanExit

\* diff_replace is sequential code: a step that can be taken is taken
FairSpec == Init /\ [][Next]_vars /\ WF_vars(LoopSteps)

(***************************************************************************)
(* The body of the loop of lines 160-170, step by step, for one line.      *)
(***************************************************************************)
replaceVars == <<input, diff, cur_line>>

\* line 160: the loop takes a line
TakeLine ==
    /\ pc = "line"
    /\ \E l \in Strings :
          /\ rawline' = l
          /\ line' = l
    /\ pc' = "substitute"
    /\ UNCHANGED <<substituted, outlines, error, runVars, replaceVars>>

\* lines 161-162
SubstituteLine ==
    /\ pc = "substitute"
    /\ line' = Substitute(line)
    /\ substituted' = line'
    /\ pc' = "check_remove"
    /\ UNCHANGED <<rawline, outlines, error, runVars, replaceVars>>

\* lines 164-166
WrapRemovedLine ==
    /\ pc = "check_remove"
    /\ line' = WrapRemoved(line)
    /\ pc' = "check_add"
    /\ UNCHANGED <<rawline, substituted, outlines, error, runVars, replaceVars>>

\* lines 164, 168-169
WrapAddedLine ==
    /\ pc = "check_add"
    /\ line' = WrapAdded(line)
    /\ pc' = "append"
    /\ UNCHANGED <<rawline, substituted, outlines, error, runVars, replaceVars>>

\* line 170
AppendLine ==
    /\ pc = "append"
    /\ outlines' = Append(outlines, StripLine(line))
    /\ pc' = "line_done"
    /\ UNCHANGED <<rawline, line, substituted, error, runVars, replaceVars>>

InitLine ==
    /\ pc = "line"
    /\ caller = "none"
    /\ args = NoArgs
    /\ effects = {}
    /\ source = <<>>
    /\ input = <<>>
    /\ diff = <<>>
    /\ cur_line = 0
    /\ outlines = <<>>
    /\ error = "none"
    /\ rawline = <<>>
    /\ line = <<>>
    /\ substituted = <<>>

NextLine ==
    \/ TakeLine
    \/ SubstituteLine
    \/ WrapRemovedLine
    \/ WrapAddedLine
    \/ AppendLine

SpecLine == InitLine /\ [][NextLine]_vars

(***************************************************************************)
(* Application.run, lines 33-79, with the functions it calls.              *)
(***************************************************************************)
\* `if x` for an option's value
Truthy(v) == v = "value"

\* lines 51-54
OpCount(a) ==
    (IF Truthy(a.diff) THEN 1 ELSE 0) + (IF Truthy(a.stdin) THEN 1 ELSE 0)
        + (IF Truthy(a.repo) THEN 1 ELSE 0)

\* line 55 with <= 1 for the test
SourcesAcceptedAtMostOne(a) == OpCount(a) <= 1

\* line 55: the test that lets run go on
SourcesAccepted(a) == OpCount(a) = 1

\* line 61: fd.readline() is the file's first line with its newline, as a str
ReadLine(f) == IF f = <<>> THEN <<>> ELSE Append(f[1], "\n")

\* line 109: output.split("\n") of newline-terminated lines
SplitLines(out) == Append(out, EmptyStr)

\* line 42
ParseArgs ==
    /\ pc = "run"
    /\ args' \in ArgRecords
    /\ caller' = "run"
    /\ pc' = "count_sources"
    /\ UNCHANGED <<effects, source, input, diff, cur_line, outlines, error, lineVars>>

\* lines 51-56
CountSources ==
    /\ pc = "count_sources"
    /\ IF SourcesAccepted(args)
       THEN /\ pc' = "acquire"
            /\ error' = error
       ELSE /\ pc' = "raised"
            /\ error' = "ArgumentException"
    /\ UNCHANGED <<caller, args, effects, source, input, diff, cur_line, outlines, lineVars>>

\* lines 59-61, 74-79, 176: the file is read and diff_replace entered with
\* what readline() returned
ReadDiffFile ==
    /\ pc = "acquire"
    /\ Truthy(args.diff)
    /\ \E f \in DiffFiles :
          /\ source' = f
          /\ input' = StrItems(ReadLine(f))
          /\ diff' = StrItems(ReadLine(f))
    /\ effects' = effects \cup {"read_file"}
    /\ pc' = "locate"
    /\ UNCHANGED <<caller, args, cur_line, outlines, error, lineVars>>

\* lines 62-63, 82-83
DiffFromStdin ==
    /\ pc = "acquire"
    /\ ~Truthy(args.diff)
    /\ Truthy(args.stdin)
    /\ error' = "NotImplementedError"
    /\ pc' = "raised"
    /\ UNCHANGED <<caller, args, effects, source, input, diff, cur_line, outlines, lineVars>>

\* lines 64-67
ShaAndBranch ==
    /\ pc = "acquire"
    /\ ~Truthy(args.diff)
    /\ ~Truthy(args.stdin)
    /\ Truthy(args.repo)
    /\ Truthy(args.sha)
    /\ Truthy(args.branch)
    /\ error' = "ArgumentException"
    /\ pc' = "raised"
    /\ UNCHANGED <<caller, args, effects, source, input, diff, cur_line, outlines, lineVars>>

\* lines 68, 86-95: git show runs; communicate() returns bytes, whose
\* split("\n") with a str separator raises TypeError
DiffFromSha ==
    /\ pc = "acquire"
    /\ ~Truthy(args.diff)
    /\ ~Truthy(args.stdin)
    /\ Truthy(args.repo)
    /\ Truthy(args.sha)
    /\ ~Truthy(args.branch)
    /\ \E g \in GitOutputs : source' = g
    /\ effects' = effects \cup {"git"}
    /\ error' = "TypeError"
    /\ pc' = "raised"
    /\ UNCHANGED <<caller, args, input, diff, cur_line, outlines, lineVars>>

\* lines 69-70, 98-109, 74-79, 176: git diff runs, its decoded output is split
\* into lines and diff_replace entered with them
DiffFromBranch ==
    /\ pc = "acquire"
    /\ ~Truthy(args.diff)
    /\ ~Truthy(args.stdin)
    /\ Truthy(args.repo)
    /\ ~Truthy(args.sha)
    /\ Truthy(args.branch)
    /\ \E g \in GitOutputs :
          /\ source' = g
          /\ input' = SplitLines(g)
          /\ diff' = SplitLines(g)
    /\ effects' = effects \cup {"git"}
    /\ pc' = "locate"
    /\ UNCHANGED <<caller, args, cur_line, outlines, error, lineVars>>

\* lines 71-72
NoShaNoBranch ==
    /\ pc = "acquire"
    /\ ~Truthy(args.diff)
    /\ ~Truthy(args.stdin)
    /\ Truthy(args.repo)
    /\ ~Truthy(args.sha)
    /\ ~Truthy(args.branch)
    /\ error' = "ArgumentException"
    /\ pc' = "raised"
    /\ UNCHANGED <<caller, args, effects, source, input, diff, cur_line, outlines, lineVars>>

\* lines 180-199: diff_replace has returned; the output file is opened and
\* written
WriteOutput ==
    /\ pc = "returned"
    /\ caller = "run"
    /\ effects' = effects \cup {"open_outfile"}
    /\ pc' = "done"
    /\ UNCHANGED <<caller, args, source, input, diff, cur_line, outlines, error, lineVars>>

InitRun ==
    /\ pc = "run"
    /\ caller = "none"
    /\ args = NoArgs
    /\ effects = {}
    /\ source = <<>>
    /\ input = <<>>
    /\ diff = <<>>
    /\ cur_line = 0
    /\ outlines = <<>>
    /\ error = "none"
    /\ rawline = <<>>
    /\ line = <<>>
    /\ substituted = <<>>

NextRun ==
    \/ ParseArgs
    \/ CountSources
    \/ ReadDiffFile
    \/ DiffFromStdin
    \/ ShaAndBranch
    \/ DiffFromSha
    \/ DiffFromBranch
    \/ NoShaNoBranch
    \/ LocateStart
    \/ ScanSkip
    \/ ScanSplice
    \/ ScanRaise
    \/ ScanExit
    \/ Highlight
    \/ WriteOutput

SpecRun == InitRun /\ [][NextRun]_vars

(***************************************************************************)
(* Definitions the claims are stated with.                                 *)
(***************************************************************************)
Terminated == pc \in {"returned", "raised"}

DivClose == <<"<","/","d","i","v",">">>

EndsWith(s, p) ==
    Len(s) >= Len(p) /\ SubSeq(s, Len(s) - Len(p) + 1, Len(s)) = p

\* <div class="file">File: <path></div>
MarkerText(path) == MarkerOpen \o path \o DivClose

IsMarkerLine(l) == StartsWith(l, MarkerOpen) /\ EndsWith(l, DivClose)

IsHeader(l) == RegexMatch(l)

HeaderCount(d) == Cardinality({i \in 1..Len(d) : IsHeader(d[i])})

\* the marker texts of the header lines of d, in the order of the lines
RECURSIVE ExpectedMarkers(_)
ExpectedMarkers(d) ==
    IF d = <<>> THEN <<>>
    ELSE IF IsHeader(Head(d))
         THEN <<MarkerText(Group1(Head(d)))>> \o ExpectedMarkers(Tail(d))
         ELSE ExpectedMarkers(Tail(d))

\* the lines of d from the first one that starts with "diff --git"
RECURSIVE FromFirstDiffGit(_)
FromFirstDiffGit(d) ==
    IF d = <<>> THEN <<>>
    ELSE IF StartsWith(Head(d), DiffGit) THEN d
    ELSE FromFirstDiffGit(Tail(d))

\* header stripping as one forward pass that builds a new list
RECURSIVE ForwardStrip(_)
ForwardStrip(d) ==
    IF d = <<>> THEN <<>>
    ELSE IF IsHeader(Head(d))
         THEN LET hunks == {j \in 2..Len(d) : StartsWith(d[j], HunkPrefix)}
              IN IF hunks = {} THEN <<>>
                 ELSE LET j == CHOOSE k \in hunks : \A h \in hunks : k <= h
                      IN <<MarkerOpen \o Group1(Head(d)) \o MarkerClose>>
                            \o ForwardStrip(SubSeq(d, j + 1, Len(d)))
         ELSE <<Head(d)>> \o ForwardStrip(Tail(d))

\* some header line has no hunk header anywhere after it
UnclosedHeader(d) ==
    \E i \in 1..Len(d) :
        /\ IsHeader(d[i])
        /\ \A j \in (i + 1)..Len(d) : ~StartsWith(d[j], HunkPrefix)

(***************************************************************************)
(* C1: when diff_replace returns, its output holds exactly one marker line *)
(* <div class="file">File: <path></div> per header line of the input, the  *)
(* paths in the order of the header lines.                                 *)
(***************************************************************************)
C1_MarkerPerHeader ==
    pc = "returned" =>
        SelectSeq(outlines, IsMarkerLine) = ExpectedMarkers(input)

(***************************************************************************)
(* C2: when diff_replace returns, no line of its output starts with        *)
(* "diff --git".                                                           *)
(***************************************************************************)
C2_NoDiffGitLeft ==
    pc = "returned" =>
        \A i \in 1..Len(outlines) : ~StartsWith(outlines[i], DiffGit)

(***************************************************************************)
(* C3: diff_replace raises "Invalid diff", with no output, exactly when no *)
(* input line starts with "diff --git"; otherwise the output is that of    *)
(* the lines from the first such line on, the lines before it dropped.     *)
(***************************************************************************)
C3_InvalidDiffOrStart ==
    /\ pc \in {"scan", "highlight", "returned", "raised"} =>
          (error = "Invalid diff" <=>
              \A i \in 1..Len(input) : ~StartsWith(input[i], DiffGit))
    /\ error = "Invalid diff" => pc = "raised" /\ outlines = <<>>
    /\ pc = "returned" =>
          LET kept == ForwardStrip(FromFirstDiffGit(input))
          IN outlines = [i \in 1..Len(kept) |-> HighlightLine(kept[i])]

C3_Witness ==
    /\ pc = "returned"
    /\ input # <<>>
    /\ ~StartsWith(input[1], DiffGit)
    /\ Len(outlines) >= 2

(***************************************************************************)
(* C4: on an input with a "diff --git" line, diff_replace raises "No end   *)
(* for last diff file", with no output and no index error, if and only if  *)
(* some header line has no line starting with "@@ " after it.              *)
(***************************************************************************)
C4_NoEndIffUnclosed ==
    (Terminated /\ HasDiffGit(input)) =>
        /\ error = "No end for last diff file" <=> UnclosedHeader(input)
        /\ error # "IndexError"
        /\ error # "none" => outlines = <<>>

C4_Witness ==
    /\ pc = "raised"
    /\ error = "No end for last diff file"
    /\ \E i \in 1..Len(diff) : StartsWith(diff[i], MarkerOpen)

(***************************************************************************)
(* C10: the header-stripping loop terminates: every iteration raises, or   *)
(* advances cur_line, or strictly reduces the number of header lines; when *)
(* the loop exits no line of the working list is a header line.            *)
(***************************************************************************)
IterationProgress ==
    (pc = "scan" /\ cur_line < Len(diff)) =>
        \/ pc' = "raised"
        \/ /\ cur_line' > cur_line
           /\ cur_line' <= Len(diff')
           /\ HeaderCount(diff') = HeaderCount(diff)
           /\ Len(diff') = Len(diff)
        \/ HeaderCount(diff') < HeaderCount(diff)

LoopExited == pc \in {"highlight", "returned", "raised"}

C10_LoopTerminates ==
    /\ [][IterationProgress]_vars
    /\ [](pc \in {"highlight", "returned"} => HeaderCount(diff) = 0)
    /\ <>LoopExited

C10_Witness ==
    /\ pc = "highlight"
    /\ cur_line >= 2
    /\ \E i \in 1..Len(diff) : StartsWith(diff[i], MarkerOpen)
    /\ HeaderCount(input) >= 2

\* p occurs in s
Contains(s, p) ==
    \E i \in 1..(Len(s) - Len(p) + 1) : SubSeq(s, i, i + Len(p) - 1) = p

\* s with its trailing whitespace removed
RECURSIVE WithoutTrailingSpace(_)
WithoutTrailingSpace(s) ==
    IF s = <<>> THEN s
    ELSE IF s[Len(s)] \in Whitespace
         THEN WithoutTrailingSpace(SubSeq(s, 1, Len(s) - 1))
         ELSE s

AllSpace(s) == \A i \in 1..Len(s) : s[i] \in Whitespace

\* the four word-diff tokens and the markup of each
WordDiffToken == << <<"[","-">>, <<"-","]">>, <<"{","+">>, <<"+","}">> >>

WordDiffMarkup == <<RemoveOpen, SpanClose, AddOpen, SpanClose>>

Orders == {p \in [1..4 -> 1..4] : \A i, j \in 1..4 : p[i] = p[j] => i = j}

ApplyOne(l, k) == StrReplace(l, WordDiffToken[k], WordDiffMarkup[k])

ApplyInOrder(l, p) == ApplyOne(ApplyOne(ApplyOne(ApplyOne(l, p[1]), p[2]), p[3]), p[4])

OrderIndependent(l, result) == \A p \in Orders : ApplyInOrder(l, p) = result

\* a token's last character is the first character of the token closing it
Overlapping(l) == Contains(l, <<"[","-","]">>) \/ Contains(l, <<"{","+","}">>)

(***************************************************************************)
(* C5: a substituted line starting with "-" comes out as exactly one       *)
(* whole-line remove span around the rest of the line, one starting with   *)
(* "+" as exactly one whole-line add span around the rest; a line starting *)
(* with any other character, or empty, is not wrapped.                     *)
(***************************************************************************)
C5_WholeLineWrap ==
    pc = "line_done" =>
        LET s == substituted
            out == outlines[Len(outlines)]
        IN /\ (s # <<>> /\ s[1] = "-") =>
                  out = RemoveOpen \o SubSeq(s, 2, Len(s)) \o SpanCloseBr
           /\ (s # <<>> /\ s[1] = "+") =>
                  out = AddOpen \o SubSeq(s, 2, Len(s)) \o SpanCloseBr
           /\ (s = <<>> \/ s[1] \notin {"-", "+"}) =>
                  (out = <<>> \/ Contains(s, out))

C5_Witness ==
    /\ pc = "line_done"
    /\ substituted # <<>>
    /\ substituted[1] = "-"
    /\ Len(substituted) > Len(rawline)

(***************************************************************************)
(* C6 as stated: for every line, the four substitutions applied in any of  *)
(* the 24 orders give the string the code's order gives.                   *)
(***************************************************************************)
C6_AnyOrder ==
    pc = "check_remove" => OrderIndependent(rawline, substituted)

(***************************************************************************)
(* C6 as amended: for every line that contains neither "[-]" nor "{+}",    *)
(* the four substitutions applied in any of the 24 orders give the string  *)
(* the code's order gives; for a line that contains one of them some order *)
(* gives another string.                                                   *)
(***************************************************************************)
C6_AnyOrderUnlessOverlap ==
    pc = "check_remove" =>
        (OrderIndependent(rawline, substituted) <=> ~Overlapping(rawline))

C6_Witness ==
    /\ pc = "check_remove"
    /\ ~Overlapping(rawline)
    /\ Contains(rawline, <<"[","-">>)
    /\ Contains(rawline, <<"-","]">>)

(***************************************************************************)
(* C7 as stated: the output line is the substituted and wrapped line with  *)
(* its trailing whitespace removed and nothing else changed.               *)
(***************************************************************************)
C7_TrailingOnly ==
    pc = "line_done" => outlines[Len(outlines)] = WithoutTrailingSpace(line)

(***************************************************************************)
(* C7 as amended: the output line is the substituted and wrapped line with *)
(* its leading and its trailing whitespace removed and nothing else        *)
(* changed.                                                                *)
(***************************************************************************)
C7_BothEndsStripped ==
    pc = "line_done" =>
        LET out == outlines[Len(outlines)]
        IN /\ out # <<>> => out[1] \notin Whitespace /\ out[Len(out)] \notin Whitespace
           /\ \E i \in 0..Len(line) :
                 /\ i + Len(out) <= Len(line)
                 /\ AllSpace(SubSeq(line, 1, i))
                 /\ SubSeq(line, i + 1, i + Len(out)) = out
                 /\ AllSpace(SubSeq(line, i + Len(out) + 1, Len(line)))

C7_Witness ==
    /\ pc = "line_done"
    /\ Len(line) >= 3
    /\ line[1] \in Whitespace
    /\ line[Len(line)] \in Whitespace
    /\ outlines[Len(outlines)] # <<>>

\* no file was read, git was not run and the output file was not opened
NoEffectYet == effects = {}

\* the argument error was raised, or run is still before the place that
\* raises it
ArgumentErrorFirst(a) ==
    /\ NoEffectYet
    /\ \/ pc = "count_sources"
       \/ pc = "acquire" /\ OpCount(a) = 1
       \/ pc = "raised" /\ error = "ArgumentException"

(***************************************************************************)
(* C8 as stated: run raises an argument error, before a diff is read or    *)
(* acquired and before the output file is opened, whenever the number of   *)
(* sources given is not exactly one or --sha and --branch are both given.  *)
(***************************************************************************)
C8_ArgumentErrors ==
    (caller = "run" /\
        (OpCount(args) # 1 \/ (Truthy(args.sha) /\ Truthy(args.branch))))
    => ArgumentErrorFirst(args)

(***************************************************************************)
(* C8 as amended: run raises an argument error, before a diff is read or   *)
(* acquired and before the output file is opened, whenever the number of   *)
(* sources given with a non-empty value is not exactly one, or --repo is   *)
(* the source and --sha and --branch are both given with a non-empty value.*)
(***************************************************************************)
C8_ArgumentErrorsOfRepo ==
    (caller = "run" /\
        (OpCount(args) # 1
            \/ (Truthy(args.repo) /\ Truthy(args.sha) /\ Truthy(args.branch))))
    => ArgumentErrorFirst(args)

C8_Witness ==
    /\ caller = "run"
    /\ pc = "raised"
    /\ error = "ArgumentException"
    /\ OpCount(args) = 1
    /\ Truthy(args.sha)
    /\ Truthy(args.branch)

(***************************************************************************)
(* C9: with --diff as the source, diff_replace is entered with the text    *)
(* lines of the file, so a file that holds a line starting with            *)
(* "diff --git" is not rejected with "Invalid diff".                       *)
(***************************************************************************)
C9_FileLinesPassed ==
    (caller = "run" /\ Truthy(args.diff)) =>
        /\ pc = "locate" => input = source
        /\ HasDiffGit(source) => error # "Invalid diff"

====
